---------------------------- MODULE Spec2Model ----------------------------
(***************************************************************************)
(* Model of WheelApi (reference_cpp/ffbeast-wheel-api-lib/wheel_api.cpp):  *)
(* the host-side HID report codec and transport binding of the FFBeast     *)
(* wheel controller.                                                       *)
(*                                                                         *)
(* The object's state is the connection handle.  Every public operation is *)
(* one action.  The HID transport (hidapi) is the environment: what each   *)
(* primitive returns and what it leaves in the caller's buffer is chosen   *)
(* nondeterministically.  The remaining variables record what the last     *)
(* operation did (arguments, transport calls, buffers, return value) and   *)
(* two running counters, so that the contracts of the operations can be    *)
(* stated over reachable states.                                           *)
(*                                                                         *)
(* Buffers are functions from byte offset to byte value (0..255).  Multi-  *)
(* byte values are laid out little-endian, the layout of the hosts the     *)
(* library is built for; the structures are packed.                        *)
(***************************************************************************)
EXTENDS Integers, Sequences, FiniteSets

VARIABLES
    handle,      \* WheelApi::handle: NULL, an open device, or left unset by the constructor
    op,          \* name of the last operation invoked ("none" after construction)
    args,        \* its arguments [field, index, data]
    ret,         \* the value it returned
    tcalls,      \* the transport calls it made, in order
    sent,        \* the initialised bytes of the buffer it handed to the transport
    recv,        \* the report buffer as the transport left it (reads)
    destBefore,  \* the caller's destination structure before the call (reads)
    dest,        \* the caller's destination structure after the call (reads)
    copied,      \* whether the operation executed its memcpy into the destination
    enum,        \* connect: the list hid_enumerate returned
    opened,      \* connect: the paths passed to hid_open_path, in order
    freed,       \* connect: number of hid_free_enumeration calls
    handlePrev,  \* the handle when the last operation was invoked
    nConn,       \* number of read/write operations invoked while connected
    nCalls       \* number of transport write/read/get-feature calls made

vars == <<handle, op, args, ret, tcalls, sent, recv, destBefore, dest, copied,
          enum, opened, freed, handlePrev, nConn, nCalls>>

---------------------------------------------------------------------------
(* Bounds of the model *)

\* at most this many devices in one enumeration
MaxDevs == 3
\* at most this many operations are invoked while connected
MaxOps == 3
\* sizeof of a settings / state structure, in bytes
PayloadLen == 2
\* sizeof(DirectControlTypeDef), in bytes
CtlLen == 1

---------------------------------------------------------------------------
(* Constants of the program *)

NULL == 0
FrameLen == 65
StateReadTimeout == 100
VendorInterface == 0

\* The enumerators below and the structure layouts are declared in wheel_api.h.
\* The operations only name them; no property depends on the values beyond
\* their being bytes.
\* ReportTypeEnum (wheel_api.h)
REPORT_HARDWARE_SETTINGS_FEATURE == 33
REPORT_EFFECT_SETTINGS_FEATURE == 34
REPORT_GPIO_SETTINGS_FEATURE == 161
REPORT_ADC_SETTINGS_FEATURE == 162
REPORT_GENERIC_INPUT_OUTPUT == 163

\* ReportDataEnum (wheel_api.h)
DATA_COMMAND_REBOOT == 1
DATA_COMMAND_SAVE_SETTINGS == 2
DATA_COMMAND_DFU_MODE == 3
DATA_COMMAND_RESET_CENTER == 4
DATA_OVERRIDE_DATA == 16
DATA_SETTINGS_FIELD_DATA == 20

\* Byte offsets inside the 65-byte report, from the packed nesting
\* HidInOutReportTypeDef{ReportId, Buffer} > DataReportTypeDef{ReportData, Buffer}
\* > FieldDataTypeDef{FieldId, Value} > FieldValueTypeDef{Index, Buffer}
OFF_ReportId == 0
OFF_ReportData == 1
OFF_DataBuffer == 2
OFF_FieldId == 2
OFF_Index == 3
OFF_Value == 4

---------------------------------------------------------------------------
(* Input domains *)

\* hid_enumerate: lists of descriptors {path, interface_number}; the path of
\* the i-th descriptor is i
Interfaces == {0, 1}
SeqsUpTo(n) == UNION {[1..k -> Interfaces] : k \in 0..n}
Enumerations ==
    {[i \in DOMAIN s |-> [path |-> i, interface_number |-> s[i]]] : s \in SeqsUpTo(MaxDevs)}

\* what hid_write, hid_get_feature_report and hid_read_timeout may return
WriteRets == {-1, 0, FrameLen}
FeatureRets == {-1, 0, 1, PayloadLen + 1}
ReadRets == {-1, 0, 1, PayloadLen + 1}

\* contents of a report buffer after a read primitive: byte 0 and payload
PayloadBytes == {17, 255}
ReportBuffers(id0) ==
    {[i \in 0..PayloadLen |-> IF i = 0 THEN id0 ELSE p[i]] : p \in [1..PayloadLen -> PayloadBytes]}

\* contents of the caller's destination structure before a read
Destinations == {[i \in 1..PayloadLen |-> 0], [i \in 1..PayloadLen |-> 170]}

\* DirectControlTypeDef values, as raw bytes
Controls == [0..(CtlLen - 1) -> {0, 129}]

\* SettingsFieldEnum values, int8_t indices, values of the five types
FieldIds == {1, 200}
Indices == {-128, -1, 0, 127}
Int8Vals == {-128, -1, 0, 127}
UInt8Vals == {0, 1, 128, 255}
Int16Vals == {-32768, -1, 258, 32767}
UInt16Vals == {0, 255, 30000, 65535}
\* IEEE-754 binary32 values as (sign, biased exponent, mantissa):
\* +0.0, 1.0, -1.5, and the all-ones pattern of the low 31 bits
FloatVals == {[s |-> 0, e |-> 0, m |-> 0], [s |-> 0, e |-> 127, m |-> 0],
              [s |-> 1, e |-> 127, m |-> 4194304], [s |-> 0, e |-> 255, m |-> 8388607]}

NoArgs == [field |-> 0, index |-> 0, data |-> 0]
NoBuf == << >>

---------------------------------------------------------------------------
(* Integer conversions and byte layout *)

\* conversion to uint8_t / uint16_t (modulo 2^8, 2^16)
ToUInt8(x) == x % 256
ToUInt16(x) == x % 65536

\* byte k of the little-endian object representation of an unsigned value
ByteAt(x, k) == IF k = 0 THEN x % 256 ELSE (x \div 256) % 256

\* the 32-bit pattern of a float, sign * 2^31 + exponent * 2^23 + mantissa, as
\* its two 16-bit halves (k = 0: bits 0..15, k = 1: bits 16..31)
FloatWord(f, k) == IF k = 0 THEN f.m % 65536
                   ELSE f.s * 32768 + f.e * 128 + (f.m \div 65536)

\* HidInOutReportTypeDef report = {};
ZeroReport == [i \in 0..(FrameLen - 1) |-> 0]

---------------------------------------------------------------------------
(* Encoders of the typed setting reports *)

CreateInt8SettingsReport(report, fieldId, index, value) ==
    [report EXCEPT ![OFF_ReportId] = REPORT_GENERIC_INPUT_OUTPUT,
                   ![OFF_ReportData] = DATA_SETTINGS_FIELD_DATA,
                   ![OFF_FieldId] = fieldId,
                   ![OFF_Index] = index,
                   ![OFF_Value] = ToUInt8(value)]

CreateInt16SettingsReport(report, fieldId, index, value) ==
    [report EXCEPT ![OFF_ReportId] = REPORT_GENERIC_INPUT_OUTPUT,
                   ![OFF_ReportData] = DATA_SETTINGS_FIELD_DATA,
                   ![OFF_FieldId] = fieldId,
                   ![OFF_Index] = index,
                   ![OFF_Value] = ByteAt(ToUInt16(value), 0),
                   ![OFF_Value + 1] = ByteAt(ToUInt16(value), 1)]

CreateUInt8SettingsReport(report, fieldId, index, value) ==
    [report EXCEPT ![OFF_ReportId] = REPORT_GENERIC_INPUT_OUTPUT,
                   ![OFF_ReportData] = DATA_SETTINGS_FIELD_DATA,
                   ![OFF_FieldId] = fieldId,
                   ![OFF_Index] = index,
                   ![OFF_Value] = value]

\* a plausible slip: only the low byte of the value is stored
CreateUInt16SettingsReport_LowByteOnly(report, fieldId, index, value) ==
    [report EXCEPT ![OFF_ReportId] = REPORT_GENERIC_INPUT_OUTPUT,
                   ![OFF_ReportData] = DATA_SETTINGS_FIELD_DATA,
                   ![OFF_FieldId] = fieldId,
                   ![OFF_Index] = index,
                   ![OFF_Value] = ByteAt(value, 0)]

CreateUInt16SettingsReport(report, fieldId, index, value) ==
    [report EXCEPT ![OFF_ReportId] = REPORT_GENERIC_INPUT_OUTPUT,
                   ![OFF_ReportData] = DATA_SETTINGS_FIELD_DATA,
                   ![OFF_FieldId] = fieldId,
                   ![OFF_Index] = index,
                   ![OFF_Value] = ByteAt(value, 0),
                   ![OFF_Value + 1] = ByteAt(value, 1)]

CreateFloatSettingsReport(report, fieldId, index, value) ==
    [report EXCEPT ![OFF_ReportId] = REPORT_GENERIC_INPUT_OUTPUT,
                   ![OFF_ReportData] = DATA_SETTINGS_FIELD_DATA,
                   ![OFF_FieldId] = fieldId,
                   ![OFF_Index] = index,
                   ![OFF_Value] = ByteAt(FloatWord(value, 0), 0),
                   ![OFF_Value + 1] = ByteAt(FloatWord(value, 0), 1),
                   ![OFF_Value + 2] = ByteAt(FloatWord(value, 1), 0),
                   ![OFF_Value + 3] = ByteAt(FloatWord(value, 1), 1)]

---------------------------------------------------------------------------
(* Recording what an operation did *)

\* one transport call: the primitive, the length and timeout arguments, the result
TCall(prim, len, timeout, r) == [prim |-> prim, len |-> len, timeout |-> timeout, ret |-> r]

\* A public operation other than connect ran: `calls` are the transport calls
\* it made, `result` what it returned.  The handle is left as it was.
Ran(name, a, calls, sentBuf, recvBuf, dBefore, dAfter, didCopy, result) ==
    /\ op' = name
    /\ args' = a
    /\ tcalls' = calls
    /\ sent' = sentBuf
    /\ recv' = recvBuf
    /\ destBefore' = dBefore
    /\ dest' = dAfter
    /\ copied' = didCopy
    /\ ret' = result
    /\ enum' = << >>
    /\ opened' = << >>
    /\ freed' = 0
    /\ handlePrev' = handle
    /\ handle' = handle
    /\ nConn' = nConn + (IF handle # NULL THEN 1 ELSE 0)
    /\ nCalls' = nCalls + Len(calls)

\* an operation that writes one frame and returns what hid_write returned
Wrote(name, a, frame, w) ==
    Ran(name, a, <<TCall("hid_write", FrameLen, 0, w)>>, frame, NoBuf, NoBuf, NoBuf, FALSE, w)

\* an operation that found no handle: return 0
NotConnected(name, a, dBefore) ==
    Ran(name, a, << >>, NoBuf, NoBuf, dBefore, dBefore, FALSE, 0)

---------------------------------------------------------------------------
(* Construction *)

\* WheelApi::WheelApi() calls hid_init() and assigns nothing to the member
\* handle: its value after construction is whatever the object's memory held,
\* null or any other pointer value (1..MaxDevs are the values hid_open_path can
\* return later, MaxDevs + 1 is one it never returns).
IndeterminateHandles == NULL..(MaxDevs + 1)

Init ==
    /\ handle \in IndeterminateHandles
    /\ op = "none"
    /\ args = NoArgs
    /\ ret = 0
    /\ tcalls = << >>
    /\ sent = NoBuf
    /\ recv = NoBuf
    /\ destBefore = NoBuf
    /\ dest = NoBuf
    /\ copied = FALSE
    /\ enum = << >>
    /\ opened = << >>
    /\ freed = 0
    /\ handlePrev = handle
    /\ nConn = 0
    /\ nCalls = 0

---------------------------------------------------------------------------
(* connect *)

RECURSIVE FirstVendorPath_NoBreak(_, _)
\* a plausible slip: the loop has no break, so the last match wins
FirstVendorPath_NoBreak(devs, i) ==
    IF i > Len(devs) THEN NULL
    ELSE LET rest == FirstVendorPath_NoBreak(devs, i + 1)
         IN  IF devs[i].interface_number = VendorInterface /\ rest = NULL
             THEN devs[i].path
             ELSE rest

RECURSIVE FirstVendorPath(_, _)
\* the while loop of connect from cur_dev = devs[i]: the path of the first
\* descriptor whose interface_number is 0, NULL when the list is exhausted
FirstVendorPath(devs, i) ==
    IF i > Len(devs) THEN NULL
    ELSE IF devs[i].interface_number = VendorInterface THEN devs[i].path
    ELSE FirstVendorPath(devs, i + 1)

\* devs: what hid_enumerate returns; openOk: whether hid_open_path succeeds
connect(devs, openOk) ==
    LET path_to_open == FirstVendorPath(devs, 1)
    IN  /\ nConn < MaxOps
        /\ op' = "connect"
        /\ args' = NoArgs
        /\ enum' = devs
        /\ handlePrev' = handle
        /\ IF path_to_open # NULL
           THEN /\ opened' = <<path_to_open>>
                /\ handle' = (IF openOk THEN path_to_open ELSE NULL)
                /\ ret' = 1
           ELSE /\ opened' = << >>
                /\ handle' = handle
                /\ ret' = 0
        /\ freed' = 1
        /\ tcalls' = << >>
        /\ sent' = NoBuf
        /\ recv' = NoBuf
        /\ destBefore' = NoBuf
        /\ dest' = NoBuf
        /\ copied' = FALSE
        /\ UNCHANGED <<nConn, nCalls>>

---------------------------------------------------------------------------
(* The four commands without a body *)

\* a plausible slip: the handle check is missing
saveAndReboot_NoCheck ==
    /\ nConn < MaxOps
    /\ \E w \in WriteRets :
         Wrote("saveAndReboot", NoArgs,
               [ZeroReport EXCEPT ![OFF_ReportId] = REPORT_GENERIC_INPUT_OUTPUT,
                                  ![OFF_ReportData] = DATA_COMMAND_SAVE_SETTINGS], w)

saveAndReboot ==
    /\ nConn < MaxOps
    /\ \E w \in WriteRets :
         IF handle # NULL
         THEN LET genericReport ==
                      [ZeroReport EXCEPT ![OFF_ReportId] = REPORT_GENERIC_INPUT_OUTPUT,
                                         ![OFF_ReportData] = DATA_COMMAND_SAVE_SETTINGS]
              IN  Wrote("saveAndReboot", NoArgs, genericReport, w)
         ELSE NotConnected("saveAndReboot", NoArgs, NoBuf)

rebootController ==
    /\ nConn < MaxOps
    /\ \E w \in WriteRets :
         IF handle # NULL
         THEN LET genericReport ==
                      [ZeroReport EXCEPT ![OFF_ReportId] = REPORT_GENERIC_INPUT_OUTPUT,
                                         ![OFF_ReportData] = DATA_COMMAND_REBOOT]
              IN  Wrote("rebootController", NoArgs, genericReport, w)
         ELSE NotConnected("rebootController", NoArgs, NoBuf)

switchtoDfu ==
    /\ nConn < MaxOps
    /\ \E w \in WriteRets :
         IF handle # NULL
         THEN LET genericReport ==
                      [ZeroReport EXCEPT ![OFF_ReportId] = REPORT_GENERIC_INPUT_OUTPUT,
                                         ![OFF_ReportData] = DATA_COMMAND_DFU_MODE]
              IN  Wrote("switchtoDfu", NoArgs, genericReport, w)
         ELSE NotConnected("switchtoDfu", NoArgs, NoBuf)

\* a plausible slip: the report is not zero-initialised (stale stack bytes)
resetCenter_Uninitialised ==
    /\ nConn < MaxOps
    /\ \E w \in WriteRets, stale \in PayloadBytes :
         IF handle # NULL
         THEN LET genericReport ==
                      [[i \in 0..(FrameLen - 1) |-> stale]
                           EXCEPT ![OFF_ReportId] = REPORT_GENERIC_INPUT_OUTPUT,
                                  ![OFF_ReportData] = DATA_COMMAND_RESET_CENTER]
              IN  Wrote("resetCenter", NoArgs, genericReport, w)
         ELSE NotConnected("resetCenter", NoArgs, NoBuf)

resetCenter ==
    /\ nConn < MaxOps
    /\ \E w \in WriteRets :
         IF handle # NULL
         THEN LET genericReport ==
                      [ZeroReport EXCEPT ![OFF_ReportId] = REPORT_GENERIC_INPUT_OUTPUT,
                                         ![OFF_ReportData] = DATA_COMMAND_RESET_CENTER]
              IN  Wrote("resetCenter", NoArgs, genericReport, w)
         ELSE NotConnected("resetCenter", NoArgs, NoBuf)

---------------------------------------------------------------------------
(* Reads of the settings feature reports and of the device state *)

\* the bytes of a report structure after its ReportId: report.<settings>
Payload(report) == [i \in 1..PayloadLen |-> report[i]]

\* a report structure of which only ReportId has been assigned
OnlyReportId(id) == [i \in {OFF_ReportId} |-> id]

\* a plausible slip: memcpy from &report instead of &report.effectSettings
readEffectSettings_CopyFromId(destination) ==
    /\ nConn < MaxOps
    /\ \E r \in FeatureRets, report \in ReportBuffers(REPORT_EFFECT_SETTINGS_FEATURE) :
         IF handle # NULL
         THEN LET result == r
              IN  Ran("readEffectSettings", NoArgs,
                      <<TCall("hid_get_feature_report", PayloadLen + 1, 0, r)>>,
                      OnlyReportId(REPORT_EFFECT_SETTINGS_FEATURE), report, destination,
                      IF result > 0 THEN [i \in 1..PayloadLen |-> report[i - 1]]
                                    ELSE destination,
                      result > 0, result)
         ELSE NotConnected("readEffectSettings", NoArgs, destination)

readEffectSettings(destination) ==
    /\ nConn < MaxOps
    /\ \E r \in FeatureRets, report \in ReportBuffers(REPORT_EFFECT_SETTINGS_FEATURE) :
         IF handle # NULL
         THEN LET result == r
              IN  Ran("readEffectSettings", NoArgs,
                      <<TCall("hid_get_feature_report", PayloadLen + 1, 0, r)>>,
                      OnlyReportId(REPORT_EFFECT_SETTINGS_FEATURE), report, destination,
                      IF result > 0 THEN Payload(report) ELSE destination,
                      result > 0, result)
         ELSE NotConnected("readEffectSettings", NoArgs, destination)

\* In the next three the result of hid_get_feature_report is stored in an inner
\* `int result` that shadows the function's `result`; the function returns the
\* outer one, which stays 0.
readHardwareSettings(destination) ==
    /\ nConn < MaxOps
    /\ \E r \in FeatureRets, report \in ReportBuffers(REPORT_HARDWARE_SETTINGS_FEATURE) :
         IF handle # NULL
         THEN LET result == 0
                  inner  == r
              IN  Ran("readHardwareSettings", NoArgs,
                      <<TCall("hid_get_feature_report", PayloadLen + 1, 0, r)>>,
                      OnlyReportId(REPORT_HARDWARE_SETTINGS_FEATURE), report, destination,
                      IF inner > 0 THEN Payload(report) ELSE destination,
                      inner > 0, result)
         ELSE NotConnected("readHardwareSettings", NoArgs, destination)

readGpioExtensionSettings(destination) ==
    /\ nConn < MaxOps
    /\ \E r \in FeatureRets, report \in ReportBuffers(REPORT_GPIO_SETTINGS_FEATURE) :
         IF handle # NULL
         THEN LET result == 0
                  inner  == r
              IN  Ran("readGpioExtensionSettings", NoArgs,
                      <<TCall("hid_get_feature_report", PayloadLen + 1, 0, r)>>,
                      OnlyReportId(REPORT_GPIO_SETTINGS_FEATURE), report, destination,
                      IF inner > 0 THEN Payload(report) ELSE destination,
                      inner > 0, result)
         ELSE NotConnected("readGpioExtensionSettings", NoArgs, destination)

readAdcExtensionSettings(destination) ==
    /\ nConn < MaxOps
    /\ \E r \in FeatureRets, report \in ReportBuffers(REPORT_ADC_SETTINGS_FEATURE) :
         IF handle # NULL
         THEN LET result == 0
                  inner  == r
              IN  Ran("readAdcExtensionSettings", NoArgs,
                      <<TCall("hid_get_feature_report", PayloadLen + 1, 0, r)>>,
                      OnlyReportId(REPORT_ADC_SETTINGS_FEATURE), report, destination,
                      IF inner > 0 THEN Payload(report) ELSE destination,
                      inner > 0, result)
         ELSE NotConnected("readAdcExtensionSettings", NoArgs, destination)

\* a plausible slip: the copy is not guarded by result > 0
readState_AlwaysCopy(destination) ==
    /\ nConn < MaxOps
    /\ \E r \in ReadRets, report \in ReportBuffers(1) :
         IF handle # NULL
         THEN LET result == r
              IN  Ran("readState", NoArgs,
                      <<TCall("hid_read_timeout", FrameLen, StateReadTimeout, r)>>,
                      NoBuf, report, destination, Payload(report), TRUE, result)
         ELSE NotConnected("readState", NoArgs, destination)

\* a plausible slip: a read that got nothing is reported as a failure
readState_TimeoutAsFailure(destination) ==
    /\ nConn < MaxOps
    /\ \E r \in ReadRets, report \in ReportBuffers(1) :
         IF handle # NULL
         THEN LET result == r
              IN  Ran("readState", NoArgs,
                      <<TCall("hid_read_timeout", FrameLen, StateReadTimeout, r)>>,
                      NoBuf, report, destination,
                      IF result > 0 THEN Payload(report) ELSE destination,
                      result > 0, IF result > 0 THEN result ELSE -1)
         ELSE NotConnected("readState", NoArgs, destination)

\* StateReportTypeDef report is handed to hid_read_timeout with no byte of it
\* assigned; byte 0 comes back as the input report's number.
readState(destination) ==
    /\ nConn < MaxOps
    /\ \E r \in ReadRets, report \in ReportBuffers(1) :
         IF handle # NULL
         THEN LET result == r
              IN  Ran("readState", NoArgs,
                      <<TCall("hid_read_timeout", FrameLen, StateReadTimeout, r)>>,
                      NoBuf, report, destination,
                      IF result > 0 THEN Payload(report) ELSE destination,
                      result > 0, result)
         ELSE NotConnected("readState", NoArgs, destination)

---------------------------------------------------------------------------
(* Writes with a body *)

\* a plausible slip: a failed write is issued a second time
sendDirectControl_Retry(control) ==
    /\ nConn < MaxOps
    /\ \E w \in WriteRets, w2 \in WriteRets :
         IF handle # NULL
         THEN LET report ==
                      [i \in 0..(FrameLen - 1) |->
                          IF i = OFF_ReportId THEN REPORT_GENERIC_INPUT_OUTPUT
                          ELSE IF i = OFF_ReportData THEN DATA_OVERRIDE_DATA
                          ELSE IF i - OFF_DataBuffer \in DOMAIN control
                               THEN control[i - OFF_DataBuffer]
                          ELSE ZeroReport[i]]
              IN  IF w < 0
                  THEN Ran("sendDirectControl", NoArgs,
                           <<TCall("hid_write", FrameLen, 0, w),
                             TCall("hid_write", FrameLen, 0, w2)>>,
                           report, NoBuf, NoBuf, NoBuf, FALSE, w2)
                  ELSE Wrote("sendDirectControl", NoArgs, report, w)
         ELSE NotConnected("sendDirectControl", NoArgs, NoBuf)

\* memcpy(genericData->Buffer, &control, sizeof(DirectControlTypeDef)) into the
\* zeroed report
sendDirectControl(control) ==
    /\ nConn < MaxOps
    /\ \E w \in WriteRets :
         IF handle # NULL
         THEN LET report ==
                      [i \in 0..(FrameLen - 1) |->
                          IF i = OFF_ReportId THEN REPORT_GENERIC_INPUT_OUTPUT
                          ELSE IF i = OFF_ReportData THEN DATA_OVERRIDE_DATA
                          ELSE IF i - OFF_DataBuffer \in DOMAIN control
                               THEN control[i - OFF_DataBuffer]
                          ELSE ZeroReport[i]]
              IN  Wrote("sendDirectControl", NoArgs, report, w)
         ELSE NotConnected("sendDirectControl", NoArgs, NoBuf)

\* field and index are converted to the uint8_t parameters of the encoders
sendInt8SettingReport(field, index, data) ==
    /\ nConn < MaxOps
    /\ \E w \in WriteRets :
         LET a == [field |-> field, index |-> index, data |-> data]
         IN  IF handle # NULL
             THEN LET genericReport ==
                          CreateInt8SettingsReport(ZeroReport, ToUInt8(field),
                                                   ToUInt8(index), data)
                  IN  Wrote("sendInt8SettingReport", a, genericReport, w)
             ELSE NotConnected("sendInt8SettingReport", a, NoBuf)

\* the int16_t data is converted to the uint16_t parameter of the unsigned encoder
sendInt16SettingReport(field, index, data) ==
    /\ nConn < MaxOps
    /\ \E w \in WriteRets :
         LET a == [field |-> field, index |-> index, data |-> data]
         IN  IF handle # NULL
             THEN LET genericReport ==
                          CreateUInt16SettingsReport(ZeroReport, ToUInt8(field),
                                                     ToUInt8(index), ToUInt16(data))
                  IN  Wrote("sendInt16SettingReport", a, genericReport, w)
             ELSE NotConnected("sendInt16SettingReport", a, NoBuf)

sendUInt8SettingReport(field, index, data) ==
    /\ nConn < MaxOps
    /\ \E w \in WriteRets :
         LET a == [field |-> field, index |-> index, data |-> data]
         IN  IF handle # NULL
             THEN LET genericReport ==
                          CreateUInt8SettingsReport(ZeroReport, ToUInt8(field),
                                                    ToUInt8(index), data)
                  IN  Wrote("sendUInt8SettingReport", a, genericReport, w)
             ELSE NotConnected("sendUInt8SettingReport", a, NoBuf)

sendUInt16SettingReport(field, index, data) ==
    /\ nConn < MaxOps
    /\ \E w \in WriteRets :
         LET a == [field |-> field, index |-> index, data |-> data]
         IN  IF handle # NULL
             THEN LET genericReport ==
                          CreateUInt16SettingsReport(ZeroReport, ToUInt8(field),
                                                     ToUInt8(index), data)
                  IN  Wrote("sendUInt16SettingReport", a, genericReport, w)
             ELSE NotConnected("sendUInt16SettingReport", a, NoBuf)

sendFloatSettingReport(field, index, data) ==
    /\ nConn < MaxOps
    /\ \E w \in WriteRets :
         LET a == [field |-> field, index |-> index, data |-> data]
         IN  IF handle # NULL
             THEN LET genericReport ==
                          CreateFloatSettingsReport(ZeroReport, ToUInt8(field),
                                                    ToUInt8(index), data)
                  IN  Wrote("sendFloatSettingReport", a, genericReport, w)
             ELSE NotConnected("sendFloatSettingReport", a, NoBuf)

---------------------------------------------------------------------------
(* The specification: any sequence of calls of the public operations *)

Next ==
    \/ \E devs \in Enumerations, openOk \in BOOLEAN : connect(devs, openOk)
    \/ saveAndReboot
    \/ rebootController
    \/ switchtoDfu
    \/ resetCenter
    \/ \E d \in Destinations : readEffectSettings(d)
    \/ \E d \in Destinations : readHardwareSettings(d)
    \/ \E d \in Destinations : readGpioExtensionSettings(d)
    \/ \E d \in Destinations : readAdcExtensionSettings(d)
    \/ \E d \in Destinations : readState(d)
    \/ \E c \in Controls : sendDirectControl(c)
    \/ \E f \in FieldIds, i \in Indices, v \in Int8Vals : sendInt8SettingReport(f, i, v)
    \/ \E f \in FieldIds, i \in Indices, v \in Int16Vals : sendInt16SettingReport(f, i, v)
    \/ \E f \in FieldIds, i \in Indices, v \in UInt8Vals : sendUInt8SettingReport(f, i, v)
    \/ \E f \in FieldIds, i \in Indices, v \in UInt16Vals : sendUInt16SettingReport(f, i, v)
    \/ \E f \in FieldIds, i \in Indices, v \in FloatVals : sendFloatSettingReport(f, i, v)

Spec == Init /\ [][Next]_vars

---------------------------------------------------------------------------
(* Vocabulary of the properties *)

CommandOps == {"saveAndReboot", "rebootController", "switchtoDfu", "resetCenter"}
SettingsReadOps == {"readEffectSettings", "readHardwareSettings",
                    "readGpioExtensionSettings", "readAdcExtensionSettings"}
ReadOps == SettingsReadOps \cup {"readState"}
SendOps == {"sendInt8SettingReport", "sendInt16SettingReport", "sendUInt8SettingReport",
            "sendUInt16SettingReport", "sendFloatSettingReport"}
ReadWriteOps == CommandOps \cup ReadOps \cup SendOps \cup {"sendDirectControl"}

\* the last operation was one of `ops`, invoked with / without a handle
RanConnected(ops) == op \in ops /\ handlePrev # NULL
RanDisconnected(ops) == op \in ops /\ handlePrev = NULL

\* the discriminator each command is to carry, the identifier each settings
\* read is to request
DiscriminatorOf(o) ==
    CASE o = "saveAndReboot" -> DATA_COMMAND_SAVE_SETTINGS
      [] o = "rebootController" -> DATA_COMMAND_REBOOT
      [] o = "switchtoDfu" -> DATA_COMMAND_DFU_MODE
      [] o = "resetCenter" -> DATA_COMMAND_RESET_CENTER
FeatureIdOf(o) ==
    CASE o = "readEffectSettings" -> REPORT_EFFECT_SETTINGS_FEATURE
      [] o = "readHardwareSettings" -> REPORT_HARDWARE_SETTINGS_FEATURE
      [] o = "readGpioExtensionSettings" -> REPORT_GPIO_SETTINGS_FEATURE
      [] o = "readAdcExtensionSettings" -> REPORT_ADC_SETTINGS_FEATURE

\* the receiver's reading of the value slot of a frame f
DecodeInt8(b) == IF b >= 128 THEN b - 256 ELSE b
DecodeUInt16(f) == f[4] + 256 * f[5]
DecodeInt16(f) == IF DecodeUInt16(f) >= 32768 THEN DecodeUInt16(f) - 65536
                  ELSE DecodeUInt16(f)
DecodeFloat(f) == [s |-> f[7] \div 128,
                   e |-> (f[7] % 128) * 2 + (f[6] \div 128),
                   m |-> (f[6] % 128) * 65536 + f[5] * 256 + f[4]]
DecodeValue(o, f) ==
    CASE o = "sendInt8SettingReport" -> DecodeInt8(f[4])
      [] o = "sendUInt8SettingReport" -> f[4]
      [] o = "sendInt16SettingReport" -> DecodeInt16(f)
      [] o = "sendUInt16SettingReport" -> DecodeUInt16(f)
      [] o = "sendFloatSettingReport" -> DecodeFloat(f)
WidthOf(o) ==
    CASE o \in {"sendInt8SettingReport", "sendUInt8SettingReport"} -> 1
      [] o \in {"sendInt16SettingReport", "sendUInt16SettingReport"} -> 2
      [] o = "sendFloatSettingReport" -> 4

\* exactly one transport call was made, of primitive prim with length len
OneCall(prim, len) ==
    /\ Len(tcalls) = 1
    /\ tcalls[1].prim = prim
    /\ tcalls[1].len = len

---------------------------------------------------------------------------
(* Properties *)

\* C1: every public operation other than connect, invoked while the handle is
\* null, returns 0 and makes no transport call (no write, no read with
\* timeout, no get-feature-report), whatever happened before.
C1_NotConnectedIsNoOp ==
    RanDisconnected(ReadWriteOps) => (ret = 0 /\ tcalls = << >> /\ sent = NoBuf)

\* a state read invoked with no handle after an earlier connected operation
\* and a connect whose open failed
C1_Witness ==
    /\ RanDisconnected({"readState"})
    /\ nConn > 0
    /\ ret = 0
    /\ tcalls = << >>

\* C2: every operation invoked with a handle returns, unchanged, what the
\* transport primitive it called returned.
C2_ReturnIsTransportResult ==
    RanConnected(ReadWriteOps) => (Len(tcalls) = 1 /\ ret = tcalls[1].ret)

\* C3: connect returns 1 if and only if the handle is non-null after the
\* call, and 0 otherwise.
C3_ConnectReportsHandle ==
    op = "connect" => (ret \in {0, 1} /\ (ret = 1 <=> handle # NULL))

\* C4: the frame a typed setting report submits has byte 0 = generic
\* input/output id, byte 1 = SETTINGS_FIELD_DATA, byte 2 = the field, byte 3 =
\* the index, the value slot at byte 4 decodes as the entry point's type to
\* exactly the value passed, and every byte after the value's width is zero.
C4_SettingReportRoundTrip ==
    RanConnected(SendOps) =>
        /\ OneCall("hid_write", 65)
        /\ DOMAIN sent = 0..64
        /\ sent[0] = REPORT_GENERIC_INPUT_OUTPUT
        /\ sent[1] = DATA_SETTINGS_FIELD_DATA
        /\ sent[2] = args.field
        /\ DecodeInt8(sent[3]) = args.index
        /\ DecodeValue(op, sent) = args.data
        /\ \A i \in (4 + WidthOf(op))..64 : sent[i] = 0

\* a signed 16-bit report with index -128 and value -1, sent through the
\* unsigned encoder
C4_Witness ==
    /\ RanConnected({"sendInt16SettingReport"})
    /\ args.index = -128
    /\ args.data = -1
    /\ sent[3] = 128
    /\ sent[4] = 255
    /\ sent[5] = 255
    /\ sent[6] = 0

\* C5: the frame of each of the four commands without a body is 65 bytes,
\* byte 0 the generic input/output id, byte 1 the command's discriminator and
\* every other byte zero; all bytes but byte 1 are thus the same for every
\* command, so two commands' frames differ only at byte 1.
C5_CommandFrame ==
    RanConnected(CommandOps) =>
        /\ OneCall("hid_write", 65)
        /\ DOMAIN sent = 0..64
        /\ sent[0] = REPORT_GENERIC_INPUT_OUTPUT
        /\ sent[1] = DiscriminatorOf(op)
        /\ \A i \in 2..64 : sent[i] = 0

\* a reset-center command written to the device
C5_Witness ==
    /\ RanConnected({"resetCenter"})
    /\ sent[1] = DATA_COMMAND_RESET_CENTER
    /\ tcalls[1].ret = 65

\* C6: each settings read hands get-feature-report a buffer whose byte 0 is
\* that kind's feature-report identifier, and when the transport returns a
\* positive count the destination equals bytes 1..N of the returned buffer.
C6_SettingsDecode ==
    RanConnected(SettingsReadOps) =>
        /\ OneCall("hid_get_feature_report", PayloadLen + 1)
        /\ 0 \in DOMAIN sent
        /\ sent[0] = FeatureIdOf(op)
        /\ tcalls[1].ret > 0 =>
               /\ DOMAIN dest = 1..PayloadLen
               /\ \A i \in 1..PayloadLen : dest[i] = recv[i]

\* a GPIO-extension read that received a full report into a destination that
\* held something else
C6_Witness ==
    /\ RanConnected({"readGpioExtensionSettings"})
    /\ tcalls[1].ret = PayloadLen + 1
    /\ dest # destBefore
    /\ dest[1] = 17
    /\ dest[PayloadLen] = 255

\* C7: a state read that receives nothing within the bound (100) returns 0,
\* a transport failure during the read is returned as a negative value.
C7_TimeoutIsNotFailure ==
    RanConnected({"readState"}) =>
        /\ OneCall("hid_read_timeout", 65)
        /\ tcalls[1].timeout = 100
        /\ tcalls[1].ret = 0 => ret = 0
        /\ tcalls[1].ret < 0 => ret < 0

\* a state read that timed out
C7_Witness ==
    /\ RanConnected({"readState"})
    /\ tcalls[1].ret = 0
    /\ ret = 0

\* C8: an operation makes exactly one transport call when invoked with a
\* handle and none without, whatever the call returns; the number of transport
\* calls made so far equals the number of operations invoked while connected.
C8_NoRetries ==
    /\ nCalls = nConn
    /\ op \in ReadWriteOps => Len(tcalls) = (IF handlePrev # NULL THEN 1 ELSE 0)

\* a failed direct-control write as the second connected operation
C8_Witness ==
    /\ RanConnected({"sendDirectControl"})
    /\ tcalls[1].ret < 0
    /\ Len(tcalls) = 1
    /\ nConn = 2
    /\ nCalls = 2

\* C9: connect opens exactly the first enumerated descriptor whose interface
\* number is 0, once; with no such descriptor it opens nothing, returns 0 and
\* leaves the handle as it was; the enumeration is released exactly once.
C9_ConnectPicksFirstVendor ==
    op = "connect" =>
        /\ freed = 1
        /\ IF \E k \in DOMAIN enum : enum[k].interface_number = 0
           THEN \E k \in DOMAIN enum :
                    /\ enum[k].interface_number = 0
                    /\ \A j \in 1..(k - 1) : enum[j].interface_number # 0
                    /\ opened = <<enum[k].path>>
           ELSE /\ opened = << >>
                /\ ret = 0
                /\ handle = handlePrev

\* a connect that skipped a first descriptor and ignored a third
C9_Witness ==
    /\ op = "connect"
    /\ Len(enum) = 3
    /\ enum[1].interface_number # 0
    /\ enum[2].interface_number = 0
    /\ enum[3].interface_number = 0
    /\ opened = <<enum[2].path>>
    /\ freed = 1

\* C10: a settings or state read that receives no data (no handle, or the
\* transport returned 0 or a negative value) leaves the destination as it
\* was; the destination is written only after a positive count.
C10_DestinationUntouched ==
    op \in ReadOps =>
        /\ (handlePrev = NULL \/ tcalls[1].ret <= 0) => (~copied /\ dest = destBefore)
        /\ copied => (handlePrev # NULL /\ tcalls[1].ret > 0)

\* a hardware-settings read that failed in the transport
C10_Witness ==
    /\ RanConnected({"readHardwareSettings"})
    /\ tcalls[1].ret < 0
    /\ ~copied
    /\ dest = destBefore
    /\ dest[1] = 170

===========================================================================
